---------------------------- MODULE Spec2Model ----------------------------
(***************************************************************************)
(* A model of the feature engine of stock-market-pp (src/src/features.py). *)
(* make_features is a pure function of a price table; the model computes  *)
(* it in exact arithmetic:                                                 *)
(*   - a missing value (NaN) is the record NaN;                            *)
(*   - a rational is a reduced fraction [n, d] of integers;                *)
(*   - a standard deviation is kept as a quadratic surd a + b*sqrt(v);     *)
(*   - an exponential moving average, whose denominators grow as 14^t or   *)
(*     (13*27*5)^t, is a fraction of two multi-limb integers.              *)
(* Prices are positive integers (ticks) or text that fails to parse.       *)
(***************************************************************************)
EXTENDS Integers, Sequences, FiniteSets, TLC

VARIABLES
    df,           \* the table handed to make_features
    df2,          \* a second table handed to a second, independent call
    fill_method,  \* what Series.pct_change does by default in the installed pandas
    sort_ties,    \* how the installed numpy quicksort orders equal dates
    pc,           \* "call" before the call(s), "done" after
    ret,          \* what make_features(df) left behind
    ret2          \* what make_features(df2) left behind

vars == <<df, df2, fill_method, sort_ties, pc, ret, ret2>>

-----------------------------------------------------------------------------
(* Program constants of features.py.                                       *)

RSI_PERIOD == 14
RSI_NEUTRAL == 50
MACD_FAST == 12
MACD_SLOW == 26
MACD_SIGNAL == 9
RET_SHORT == 1
RET_WEEK == 5
RET_MONTH == 21
MA_WINDOW == 20
VOL_SHORT == 20
VOL_LONG == 60
BB_WINDOW == 20
BB_K == 2
TARGET_HORIZON == 7

-----------------------------------------------------------------------------
(* Small helpers.                                                          *)

Max(p, q) == IF p > q THEN p ELSE q
Min(p, q) == IF p < q THEN p ELSE q
Abs(k) == IF k < 0 THEN -k ELSE k

\* A function over 1..n made into an explicit tuple.
Tup(f, n) == SubSeq(f, 1, n)

RECURSIVE GCD(_, _)
GCD(p, q) == IF q = 0 THEN p ELSE GCD(q, p % q)
LCM(p, q) == (p \div GCD(p, q)) * q

\* Sum and least common multiple over s[lo..hi], by halves.
RECURSIVE SumRange(_, _, _)
SumRange(s, lo, hi) ==
    IF lo > hi THEN 0
    ELSE IF lo = hi THEN s[lo]
    ELSE LET mid == (lo + hi) \div 2
         IN SumRange(s, lo, mid) + SumRange(s, mid + 1, hi)

RECURSIVE LcmRange(_, _, _)
LcmRange(s, lo, hi) ==
    IF lo > hi THEN 1
    ELSE IF lo = hi THEN s[lo]
    ELSE LET mid == (lo + hi) \div 2
         IN LCM(LcmRange(s, lo, mid), LcmRange(s, mid + 1, hi))

-----------------------------------------------------------------------------
(* Nullable numbers: NaN, and the reduced fractions.                       *)

NaN == [nan |-> TRUE]
IsNaN(x) == x = NaN

\* The fraction p/q, q # 0, reduced, with a positive denominator.
Reduced(p, q, g, s) == [n |-> s * (p \div g), d |-> s * (q \div g)]
Rat(p, q) == Reduced(p, q, GCD(Abs(p), Abs(q)), IF q < 0 THEN -1 ELSE 1)
RatInt(k) == [n |-> k, d |-> 1]
RatOver(x, y, l) == Rat(x.n * (l \div x.d) + y.n * (l \div y.d), l)
RatAdd(x, y) == RatOver(x, y, LCM(x.d, y.d))
RatNeg(x) == [n |-> -x.n, d |-> x.d]
RatSub(x, y) == RatAdd(x, RatNeg(y))
Cancelled(x, y, g1, g2) ==
    Rat((x.n \div g1) * (y.n \div g2), (x.d \div g2) * (y.d \div g1))
RatMul(x, y) ==
    IF x.n = 0 \/ y.n = 0 THEN RatInt(0)
    ELSE Cancelled(x, y, GCD(Abs(x.n), y.d), GCD(Abs(y.n), x.d))
\* 1/x for x # 0.
RatInv(x) == IF x.n < 0 THEN [n |-> -x.d, d |-> -x.n] ELSE [n |-> x.d, d |-> x.n]
RatQuot(x, y) == RatMul(x, RatInv(y))


-----------------------------------------------------------------------------
(* Quadratic surds a + b*sqrt(v), a, b, v fractions, v > 0: what a         *)
(* standard deviation and the columns derived from it are.  A number is    *)
(* NaN, Inf (a non-zero value over zero), a fraction or a surd.            *)

Inf == [inf |-> TRUE]
IsRat(x) == "n" \in DOMAIN x
IsSurd(x) == "v" \in DOMAIN x
IsZero(x) == IsRat(x) /\ x.n = 0
Surd(a, b, v) == IF b.n = 0 \/ v.n = 0 THEN a ELSE [a |-> a, b |-> b, v |-> v]
PartA(x) == IF IsRat(x) THEN x ELSE x.a
PartB(x) == IF IsRat(x) THEN RatInt(0) ELSE x.b
\* The radicand two operands share (a fraction has none of its own).
Radicand(x, y) == IF IsSurd(x) THEN x.v ELSE IF IsSurd(y) THEN y.v ELSE RatInt(0)
SameField(x, y) == IsRat(x) \/ IsRat(y) \/ x.v = y.v
Sqrt(q) == IF IsNaN(q) THEN NaN ELSE Surd(RatInt(0), RatInt(1), q)

Add(x, y) ==
    IF IsNaN(x) \/ IsNaN(y) THEN NaN
    ELSE IF x = Inf \/ y = Inf THEN Inf
    ELSE IF SameField(x, y)
         THEN Surd(RatAdd(PartA(x), PartA(y)), RatAdd(PartB(x), PartB(y)), Radicand(x, y))
    ELSE [unsupported |-> "sum of surds of different radicands"]
Neg(x) ==
    IF IsNaN(x) \/ x = Inf THEN x
    ELSE IF IsRat(x) THEN RatNeg(x)
    ELSE [a |-> RatNeg(x.a), b |-> RatNeg(x.b), v |-> x.v]
Sub(x, y) == Add(x, Neg(y))
Mul(x, y) ==
    IF IsNaN(x) \/ IsNaN(y) THEN NaN
    ELSE IF x = Inf \/ y = Inf THEN Inf
    ELSE IF SameField(x, y)
         THEN Surd(RatAdd(RatMul(PartA(x), PartA(y)),
                          RatMul(RatMul(PartB(x), PartB(y)), Radicand(x, y))),
                   RatAdd(RatMul(PartA(x), PartB(y)), RatMul(PartB(x), PartA(y))),
                   Radicand(x, y))
    ELSE [unsupported |-> "product of surds of different radicands"]
\* 1/y for y # 0: of a surd, its conjugate over its norm a*a - b*b*v.
Conjugate(y, norm) ==
    [a |-> RatQuot(y.a, norm), b |-> RatNeg(RatQuot(y.b, norm)), v |-> y.v]
Reciprocal(y) ==
    IF IsRat(y) THEN RatInv(y)
    ELSE Conjugate(y, RatSub(RatMul(y.a, y.a), RatMul(RatMul(y.b, y.b), y.v)))
\* IEEE division: 0/0 is NaN, x/0 is infinite.
Div(x, y) ==
    IF IsNaN(x) \/ IsNaN(y) THEN NaN
    ELSE IF IsZero(y) THEN (IF IsZero(x) THEN NaN ELSE Inf)
    ELSE IF x = Inf \/ y = Inf THEN (IF x = Inf /\ y = Inf THEN NaN ELSE IF x = Inf THEN Inf ELSE RatInt(0))
    ELSE IF SameField(x, y) THEN Mul(x, Reciprocal(y))
    ELSE IF x.a.n = 0 /\ y.a.n = 0
         THEN Surd(RatInt(0), RatQuot(x.b, y.b), RatQuot(x.v, y.v))
    ELSE [unsupported |-> "quotient of surds of different radicands"]

-----------------------------------------------------------------------------
(* Multi-limb integers for the exponential averages.  A working value is a *)
(* tuple of limbs a[1], a[2], ... standing for the sum of a[i]*BASE^(i-1); *)
(* the limbs may be negative or exceed BASE, so that scaling and adding    *)
(* need no carry chain.  Canon gives the one sign-and-magnitude form.      *)

BASE == 10^4
\* The largest multiplier Scale takes in one step.
MAXMUL == 2 * 10^3

Limb(a, i) == IF i >= 1 /\ i <= Len(a) THEN a[i] ELSE 0
Trim(a) ==
    LET n == Len(a)
    IN IF n = 0 THEN a
       ELSE IF a[n] = 0 THEN SubSeq(a, 1, n - 1)
       ELSE IF n >= 2 /\ a[n] = -1 /\ a[n - 1] > 0
            THEN Tup([i \in 1..(n - 1) |-> IF i = n - 1 THEN a[i] - BASE ELSE a[i]], n - 1)
       ELSE a
Scale(a, m) ==
    IF m = 0 THEN <<>> ELSE
    Trim(Tup([i \in 1..(Len(a) + 1) |->
                 ((Limb(a, i) * m) % BASE) + ((Limb(a, i - 1) * m) \div BASE)],
             Len(a) + 1))
BigAdd(a, b) ==
    Trim(Tup([i \in 1..Max(Len(a), Len(b)) |-> Limb(a, i) + Limb(b, i)],
             Max(Len(a), Len(b))))
BigSub(a, b) ==
    Trim(Tup([i \in 1..Max(Len(a), Len(b)) |-> Limb(a, i) - Limb(b, i)],
             Max(Len(a), Len(b))))
\* a * m for any m >= 0 below MAXMUL^2.
ScaleN(a, m) ==
    IF m <= MAXMUL THEN Scale(a, m)
    ELSE BigAdd(Scale(Scale(a, m \div MAXMUL), MAXMUL), Scale(a, m % MAXMUL))
BigInt(k) == IF k = 0 THEN <<>> ELSE <<k>>

\* One carry pass: every limb but the last ends in 0..BASE-1.
\* (the limbs 1..hi are done by halves: the limbs already in st.acc, then the rest)
RECURSIVE CarryTo(_, _, _)
CarryTo(a, hi, st) ==
    LET i == Len(st.acc) + 1
    IN IF i > hi THEN st
       ELSE IF i = hi
            THEN [carry |-> (a[i] + st.carry) \div BASE,
                  acc |-> Append(st.acc, (a[i] + st.carry) % BASE)]
       ELSE CarryTo(a, hi, CarryTo(a, (i + hi) \div 2, st))
LastCarry(st) == IF st.carry = 0 THEN st.acc ELSE Append(st.acc, st.carry)
CarryFrom(a) == LastCarry(CarryTo(a, Len(a), [carry |-> 0, acc |-> <<>>]))
RECURSIVE Strip(_)
Strip(a) == IF a # <<>> /\ a[Len(a)] = 0 THEN Strip(SubSeq(a, 1, Len(a) - 1)) ELSE a
Carry(a) == Strip(CarryFrom(a))
Signed(a, c) ==
    IF c # <<>> /\ c[Len(c)] < 0
    THEN [neg |-> TRUE, mag |-> Carry(Tup([i \in 1..Len(a) |-> -a[i]], Len(a)))]
    ELSE [neg |-> FALSE, mag |-> c]
Canon(a) == Signed(a, Carry(a))
BigIsZero(a) == Carry(a) = <<>>
\* A fraction of two big integers, the denominator positive.
BigRat(num, den) == [num |-> Canon(num), den |-> Canon(den).mag]


-----------------------------------------------------------------------------
(* pandas, as far as features.py uses it.  A Series is a tuple of numbers, *)
(* positionally aligned with the index of the frame it came from.          *)

\* pd.to_numeric(errors="coerce") on one cell: a number stays, text that
\* spells a number is parsed, any other text becomes NaN.
ParseText(t) ==
    CASE t = "1" -> RatInt(1)
      [] t = "2" -> RatInt(2)
      [] t = "4" -> RatInt(4)
      [] t = "8" -> RatInt(8)
      [] OTHER -> NaN
to_numeric(cell) ==
    IF "num" \in DOMAIN cell THEN RatInt(cell.num)
    ELSE IF "text" \in DOMAIN cell THEN ParseText(cell.text)
    ELSE NaN

\* Series.shift(periods): periods > 0 moves values later, < 0 earlier.
shift(s, periods) ==
    Tup([i \in 1..Len(s) |->
            IF i - periods >= 1 /\ i - periods <= Len(s) THEN s[i - periods] ELSE NaN],
        Len(s))

\* Series.ffill(): each missing value takes the last valid one before it.
ffill(s) ==
    Tup([i \in 1..Len(s) |->
            IF ~IsNaN(s[i]) THEN s[i]
            ELSE LET J == {j \in 1..i : ~IsNaN(s[j])}
                 IN IF J = {} THEN NaN ELSE s[CHOOSE j \in J : \A k \in J : k <= j]],
        Len(s))

\* Series.pct_change(periods) with the default fill_method of the installed
\* pandas: "pad" (pandas 1.x and 2.x) fills forward first, "none" (pandas 3)
\* does not.
Change(data, periods) ==
    Tup([i \in 1..Len(data) |->
            IF i - periods >= 1 /\ i - periods <= Len(data)
            THEN Sub(Div(data[i], data[i - periods]), RatInt(1))
            ELSE NaN],
        Len(data))
pct_change(s, periods, fill) == Change(IF fill = "pad" THEN ffill(s) ELSE s, periods)

\* Series.diff()
diff(s) == Tup([i \in 1..Len(s) |-> IF i >= 2 THEN Sub(s[i], s[i - 1]) ELSE NaN], Len(s))

\* The statistics of one rolling window ending at i: the count of valid
\* observations, their least common denominator L, and the sums of the
\* numerators and of their squares over L.  rolling() takes an infinite
\* value for a missing one.
Valid(x) == ~IsNaN(x) /\ x # Inf
WindowSums(w, L, num) ==
    [cnt |-> Cardinality({k \in 1..Len(w) : Valid(w[k])}), L |-> L,
     s1 |-> SumRange(num, 1, Len(w)),
     s2 |-> SumRange([k \in 1..Len(w) |-> num[k] * num[k]], 1, Len(w))]
WindowOver(w, L) ==
    WindowSums(w, L,
               Tup([k \in 1..Len(w) |-> IF Valid(w[k]) THEN w[k].n * (L \div w[k].d) ELSE 0],
                   Len(w)))
WindowOf(w) ==
    WindowOver(w, LcmRange([k \in 1..Len(w) |-> IF Valid(w[k]) THEN w[k].d ELSE 1], 1, Len(w)))
WindowStats(s, i, window) == WindowOf(SubSeq(s, Max(1, i - window + 1), i))

\* Series.rolling(window, min_periods).mean()
Mean(st, min_periods) ==
    IF st.cnt < min_periods \/ st.cnt = 0 THEN NaN
    ELSE Rat(st.s1, st.cnt * st.L)
rolling_mean(s, window, min_periods) ==
    Tup([i \in 1..Len(s) |->
            IF i < min_periods THEN NaN
            ELSE Mean(WindowStats(s, i, window), min_periods)],
        Len(s))

\* Series.rolling(window, min_periods).std(): the sample deviation (ddof=1).
Deviation(st, min_periods) ==
    IF st.cnt < min_periods \/ st.cnt < 2 THEN NaN
    ELSE Sqrt(Rat(st.cnt * st.s2 - st.s1 * st.s1, st.cnt * (st.cnt - 1) * st.L * st.L))
rolling_std(s, window, min_periods) ==
    Tup([i \in 1..Len(s) |->
            IF i < min_periods THEN NaN
            ELSE Deviation(WindowStats(s, i, window), min_periods)],
        Len(s))

\* Series.replace(0, np.nan) and Series.fillna(value)
replace_zero(s) == Tup([i \in 1..Len(s) |-> IF IsZero(s[i]) THEN NaN ELSE s[i]], Len(s))
fillna(s, value) == Tup([i \in 1..Len(s) |-> IF IsNaN(s[i]) THEN value ELSE s[i]], Len(s))

\* Comparisons with a missing value are false.
Positive(x) == ~IsNaN(x) /\ x.n > 0
Negative(x) == ~IsNaN(x) /\ x.n < 0


-----------------------------------------------------------------------------
(* Series.ewm(alpha or span, adjust=False).mean(), in pandas' recursive    *)
(* form with ignore_na=False.  With alpha = a/b, an observation x that     *)
(* follows gap missing values updates the average w to                     *)
(*     (p*w + q*x) / r,   p = (b-a)^(gap+1), q = a*b^gap, r = p + q,       *)
(* (gap = 0: w*(1-alpha) + x*alpha); a missing value leaves w as it is.    *)
(* The averages of one computation are kept as integer numerators over one *)
(* shared denominator D, so that no step has to divide.                    *)

EwmWeights(a, b, gap) ==
    [p |-> (b - a)^(gap + 1), q |-> a * b^gap, r |-> (b - a)^(gap + 1) + a * b^gap]
\* alpha = 2/(span + 1)
SpanWeights(span, gap) == EwmWeights(2, span + 1, gap)
\* a * m1 * m2
Scale2(a, m1, m2) ==
    IF m1 * m2 <= MAXMUL THEN Scale(a, m1 * m2) ELSE ScaleN(ScaleN(a, m1), m2)
\* The numerator, over r*D, of the updated average of w (over D) and x.
EwmUpdate(w, x, D, wt) == BigAdd(ScaleN(w, wt.p), ScaleN(D, wt.q * x))

(* _rsi: avg_gain = ag/D and avg_loss = al/D after each row; the row's      *)
(* value is appended to acc.  gain and loss are never missing (where()     *)
(* puts 0.0 wherever the comparison with delta is false).                  *)
\* 100 - hundredOver, the two being fractions of multi-limb integers
RsiIndex(hundredOver) ==
    BigRat(BigSub(Scale(hundredOver.den, 100), hundredOver.num), hundredOver.den)
\* 100 / onePlus
RsiInverse(onePlus) == RsiIndex([num |-> Scale(onePlus.den, 100), den |-> onePlus.num])
\* 1 + rs
RsiStrength(rs) ==
    IF IsNaN(rs) THEN NaN
    ELSE RsiInverse([num |-> BigAdd(rs.den, rs.num), den |-> rs.den])
\* rs = avg_gain / avg_loss.replace(0, np.nan); 100 - (100 / (1 + rs))
RsiValue(ag, al) == RsiStrength(IF BigIsZero(al) THEN NaN ELSE [num |-> ag, den |-> al])
RsiRow(st, wt, ag, al) ==
    [ag |-> ag, al |-> al, D |-> ScaleN(st.D, wt.r), acc |-> Append(st.acc, RsiValue(ag, al))]
RsiUpdate(st, gain, loss, wt) ==
    RsiRow(st, wt, EwmUpdate(st.ag, gain, st.D, wt), EwmUpdate(st.al, loss, st.D, wt))
RsiStep(st, gain, loss, period) ==
    IF st.acc = <<>>
    THEN \* the first row seeds both averages
         [ag |-> BigInt(gain), al |-> BigInt(loss), D |-> BigInt(1),
          acc |-> <<RsiValue(BigInt(gain), BigInt(loss))>>]
    ELSE RsiUpdate(st, gain, loss, EwmWeights(1, period, 0))
\* The rows up to hi, by halves: those already in st.acc, then the rest.
RECURSIVE RsiScan(_, _, _, _, _)
RsiScan(gain, loss, period, hi, st) ==
    IF Len(st.acc) + 1 > hi THEN st
    ELSE IF Len(st.acc) + 1 = hi THEN RsiStep(st, gain[hi].n, loss[hi].n, period)
    ELSE RsiScan(gain, loss, period, hi,
                 RsiScan(gain, loss, period, (Len(st.acc) + 1 + hi) \div 2, st))

\* gain = delta.where(delta > 0, 0.0)
Gains(delta) ==
    Tup([i \in 1..Len(delta) |-> IF Positive(delta[i]) THEN delta[i] ELSE RatInt(0)], Len(delta))
\* loss = -delta.where(delta < 0, 0.0)
Losses(delta) ==
    Tup([i \in 1..Len(delta) |-> Neg(IF Negative(delta[i]) THEN delta[i] ELSE RatInt(0))],
        Len(delta))
RsiOf(delta, period) ==
    fillna(RsiScan(Gains(delta), Losses(delta), period, Len(delta),
                   [ag |-> <<>>, al |-> <<>>, D |-> <<>>, acc |-> <<>>]).acc,
           BigRat(BigInt(RSI_NEUTRAL), BigInt(1)))
_rsi(close, period) == RsiOf(diff(close), period)

(* _macd_hist: ema_fast = F/D, ema_slow = S/D, signal_line = G/D after each *)
(* row.  Before the first valid close every average is missing; the signal *)
(* line is an average of the MACD line, which is never missing afterwards. *)
\* The state after a row: F, S, G over D; macd_line over D / sg.r.
MacdRow(st, gap, F, S, G, D, macd_line, sg) ==
    [started |-> TRUE, gap |-> gap, F |-> F, S |-> S, G |-> G, D |-> D,
     acc |-> Append(st.acc, BigRat(BigSub(ScaleN(macd_line, sg.r), G), D))]
\* A missing close: ema_fast and ema_slow stay, the signal line takes in
\* the same MACD line once more.
MacdHeld(st, macd_line, sg) ==
    MacdRow(st, st.gap + 1, ScaleN(st.F, sg.r), ScaleN(st.S, sg.r),
            BigAdd(ScaleN(st.G, sg.p), ScaleN(macd_line, sg.q)),
            ScaleN(st.D, sg.r), macd_line, sg)
\* macd_line over wf.r * ws.r * D; the signal line over sg.r times that
MacdSignal(st, ema_fast, ema_slow, macd_line, wf, ws, sg) ==
    MacdRow(st, 0, Scale2(ema_fast, ws.r, sg.r), Scale2(ema_slow, wf.r, sg.r),
            BigAdd(Scale2(ScaleN(st.G, sg.p), wf.r, ws.r), ScaleN(macd_line, sg.q)),
            Scale2(ScaleN(st.D, sg.r), wf.r, ws.r), macd_line, sg)
\* ema_fast over wf.r * D, ema_slow over ws.r * D
MacdLine(st, ema_fast, ema_slow, wf, ws, sg) ==
    MacdSignal(st, ema_fast, ema_slow,
               BigSub(ScaleN(ema_fast, ws.r), ScaleN(ema_slow, wf.r)), wf, ws, sg)
MacdAverages(st, c, wf, ws, sg) ==
    MacdLine(st, EwmUpdate(st.F, c.n, st.D, wf), EwmUpdate(st.S, c.n, st.D, ws), wf, ws, sg)
MacdStep(st, c, fast, slow, signal) ==
    IF ~st.started /\ IsNaN(c)
    THEN [st EXCEPT !.acc = Append(st.acc, NaN)]
    ELSE IF ~st.started
    THEN \* the first observation seeds ema_fast, ema_slow (and a zero line)
         [started |-> TRUE, gap |-> 0, F |-> BigInt(c.n), S |-> BigInt(c.n),
          G |-> BigInt(0), D |-> BigInt(1),
          acc |-> Append(st.acc, BigRat(BigInt(0), BigInt(1)))]
    ELSE IF IsNaN(c)
    THEN MacdHeld(st, BigSub(st.F, st.S), SpanWeights(signal, 0))
    ELSE MacdAverages(st, c, SpanWeights(fast, st.gap), SpanWeights(slow, st.gap),
                      SpanWeights(signal, 0))
RECURSIVE MacdScan(_, _, _, _, _, _)
MacdScan(close, fast, slow, signal, hi, st) ==
    IF Len(st.acc) + 1 > hi THEN st
    ELSE IF Len(st.acc) + 1 = hi THEN MacdStep(st, close[hi], fast, slow, signal)
    ELSE MacdScan(close, fast, slow, signal, hi,
                  MacdScan(close, fast, slow, signal, (Len(st.acc) + 1 + hi) \div 2, st))

_macd_hist(close, fast, slow, signal) ==
    fillna(MacdScan(close, fast, slow, signal, Len(close),
                    [started |-> FALSE, gap |-> 0, F |-> <<>>, S |-> <<>>,
                     G |-> <<>>, D |-> <<>>, acc |-> <<>>]).acc,
           BigRat(BigInt(0), BigInt(1)))


-----------------------------------------------------------------------------
(* Data frames.  A raw price table is                                      *)
(*   [index: dates, multi: whether columns is a MultiIndex,                *)
(*    columns: labels, each a tuple of level values, data: rows of cells], *)
(* a cell being [num |-> k] or [text |-> t].  The frame make_features      *)
(* builds is [index: dates, data: rows], a row being a record of numbers   *)
(* by column name.                                                         *)

\* The positions lo..hi of keep that hold TRUE, in order.
RECURSIVE SelectRange(_, _, _)
SelectRange(keep, lo, hi) ==
    IF lo > hi THEN <<>>
    ELSE IF lo = hi THEN (IF keep[lo] THEN <<lo>> ELSE <<>>)
    ELSE LET mid == (lo + hi) \div 2
         IN SelectRange(keep, lo, mid) \o SelectRange(keep, mid + 1, hi)

\* The rows of a table at the given positions.
take(t, pos) ==
    [t EXCEPT !.index = Tup([k \in 1..Len(pos) |-> t.index[pos[k]]], Len(pos)),
              !.data = Tup([k \in 1..Len(pos) |-> t.data[pos[k]]], Len(pos))]

is_monotonic_increasing(index) == \A i \in 1..(Len(index) - 1) : index[i] <= index[i + 1]

\* np.argsort(kind="quicksort"): ascending, equal keys in an order the sort
\* does not promise: ties = "input" leaves them in input order, "reversed"
\* delivers them in the opposite order (as numpy's introsort does when the
\* median-of-three step exchanges the first row of the table).
argsort(index, ties) ==
    LET n == Len(index)
        Before(j, i) ==
            \/ index[j] < index[i]
            \/ index[j] = index[i] /\ (IF ties = "input" THEN j < i ELSE j > i)
        rank == Tup([i \in 1..n |-> 1 + Cardinality({j \in 1..n : Before(j, i)})], n)
    IN Tup([k \in 1..n |-> CHOOSE i \in 1..n : rank[i] = k], n)

\* Faulty variant of sort_index: the rows stay as they came.
unsorted(t, ties) == t

\* DataFrame.sort_index(): kind="quicksort" by default; an index that is
\* already monotonic is not sorted at all.
sort_index(t, ties) ==
    IF is_monotonic_increasing(t.index) THEN t ELSE take(t, argsort(t.index, ties))

\* Index.duplicated(keep="first")
duplicated(index) ==
    Tup([i \in 1..Len(index) |-> \E j \in 1..(i - 1) : index[j] = index[i]], Len(index))

\* Faulty variant of flatten_columns: c[1], the symbol, is kept.
symbol_columns(t) ==
    IF t.multi
    THEN [t EXCEPT !.multi = FALSE,
                   !.columns = Tup([j \in 1..Len(t.columns) |-> <<t.columns[j][2]>>],
                                   Len(t.columns))]
    ELSE t

\* df.columns = [c[0] if isinstance(c, tuple) else c for c in df.columns]
flatten_columns(t) ==
    IF t.multi
    THEN [t EXCEPT !.multi = FALSE,
                   !.columns = Tup([j \in 1..Len(t.columns) |-> <<t.columns[j][1]>>],
                                   Len(t.columns))]
    ELSE t

HasColumn(t, name) == \E j \in 1..Len(t.columns) : t.columns[j] = <<name>>
ColumnAt(t, j) == Tup([i \in 1..Len(t.index) |-> t.data[i][j]], Len(t.index))
Column(t, name) == ColumnAt(t, CHOOSE k \in 1..Len(t.columns) : t.columns[k] = <<name>>)
\* pd.to_numeric(col, errors="coerce")
Numeric(col) ==
    [error |-> "none", values |-> Tup([i \in 1..Len(col) |-> to_numeric(col[i])], Len(col))]

\* Faulty variant of _ensure_close: the close, adjusted or not.
_close_only(t) ==
    IF HasColumn(t, "Close") THEN Numeric(Column(t, "Close"))
    ELSE [error |-> "KeyError", values |-> <<>>]

\* _ensure_close: the adjusted close if the table has one, else the close;
\* df["Close"] on a table with neither raises KeyError.
_ensure_close(t) ==
    IF HasColumn(t, "Adj Close") THEN Numeric(Column(t, "Adj Close"))
    ELSE IF HasColumn(t, "Close") THEN Numeric(Column(t, "Close"))
    ELSE [error |-> "KeyError", values |-> <<>>]


-----------------------------------------------------------------------------
(* features.py: the columns of make_features, in the order it builds them. *)

Return_1d(close, fill) == pct_change(close, RET_SHORT, fill)
\* Faulty variant of Return_1d_lag1: the return of the next day.
Return_1d_lead1(ret1) == shift(ret1, -1)
Return_1d_lag1(ret1) == shift(ret1, 1)
Return_5d(close, fill) == pct_change(close, RET_WEEK, fill)
Return_21d(close, fill) == pct_change(close, RET_MONTH, fill)

MA_20(close) == rolling_mean(close, MA_WINDOW, MA_WINDOW)
Price_vs_MA20(close, ma20) ==
    Tup([i \in 1..Len(close) |-> Sub(Div(close[i], ma20[i]), RatInt(1))], Len(close))

Vol_20(ret1) == rolling_std(ret1, VOL_SHORT, VOL_SHORT)
\* Faulty variant of Vol_60: 20 returns are enough.
Vol_60_early(ret1) == rolling_std(ret1, VOL_LONG, VOL_SHORT)
Vol_60(ret1) == rolling_std(ret1, VOL_LONG, VOL_LONG)
Vol_Ratio_20_60(vol20, vol60) ==
    Tup([i \in 1..Len(vol20) |-> Sub(Div(vol20[i], vol60[i]), RatInt(1))], Len(vol20))

RSI_14(close) == _rsi(close, RSI_PERIOD)
MACD_Hist(close) == _macd_hist(close, MACD_FAST, MACD_SLOW, MACD_SIGNAL)

std20(close) == rolling_std(close, BB_WINDOW, BB_WINDOW)
upper(ma20, sd20) ==
    Tup([i \in 1..Len(ma20) |-> Add(ma20[i], Mul(RatInt(BB_K), sd20[i]))], Len(ma20))
lower(ma20, sd20) ==
    Tup([i \in 1..Len(ma20) |-> Sub(ma20[i], Mul(RatInt(BB_K), sd20[i]))], Len(ma20))
BB_PctB_20_2(close, up, lo) ==
    Tup([i \in 1..Len(close) |-> Div(Sub(close[i], lo[i]), Sub(up[i], lo[i]))], Len(close))
\* (upper - lower) / denom, denom being ma20.replace(0, np.nan)
BB_Width_20_2(up, lo, denom) ==
    Tup([i \in 1..Len(up) |-> Div(Sub(up[i], lo[i]), denom[i])], Len(up))

\* Faulty variant of Target_Return_7d: shifted by 6 rows only.
Target_shifted_6(close, fill) ==
    shift(pct_change(close, TARGET_HORIZON, fill), 1 - TARGET_HORIZON)

\* close.pct_change(7).shift(-7)
Target_Return_7d(close, fill) ==
    shift(pct_change(close, TARGET_HORIZON, fill), -TARGET_HORIZON)

DEFAULT_FEATURES ==
    <<"Return_1d", "Return_1d_lag1", "Return_5d", "Return_21d",
      "MA_20", "Price_vs_MA20",
      "Vol_20", "Vol_60", "Vol_Ratio_20_60",
      "RSI_14", "MACD_Hist",
      "BB_PctB_20_2", "BB_Width_20_2">>
TARGET == "Target_Return_7d"

\* Faulty variant of dropna: every row stays.
keep_all_rows(frame) == frame

\* DataFrame.dropna(): the rows with no missing cell.
RowComplete(row) == \A c \in DOMAIN row : ~IsNaN(row[c])
dropna(frame) ==
    take(frame, SelectRange([i \in 1..Len(frame.index) |-> RowComplete(frame.data[i])],
                            1, Len(frame.index)))

\* df.copy().sort_index(); df[~df.index.duplicated(keep="first")]; flat columns
Unmarked(t, dup) == take(t, SelectRange([i \in 1..Len(dup) |-> ~dup[i]], 1, Len(dup)))
drop_duplicated(t) == Unmarked(t, duplicated(t.index))
normalize(t, ties) == flatten_columns(drop_duplicated(sort_index(t, ties)))

EmptyFrame == [index |-> <<>>, data |-> <<>>]

(* make_features.  Besides the frame it returns (feat), the result records *)
(* what the call computed on the way: the index of the cleaned table, the  *)
(* base price series, and, per row of the frame before dropna, the columns *)
(* that are missing there.                                                 *)

\* feat.dropna()
Cleanup(index, close, frame) ==
    [error |-> "none", index |-> index, close |-> close,
     missing |-> Tup([i \in 1..Len(index) |->
                         {c \in DOMAIN frame.data[i] : IsNaN(frame.data[i][c])}],
                     Len(index)),
     feat |-> dropna(frame)]
\* feat = pd.DataFrame(index=df.index) and its columns
Frame(index, close, ret1, lag1, ret5, ret21, ma20, pvm, vol20, vol60, ratio, rsi, macd, pctb, width, target) ==
    Cleanup(index, close,
            [index |-> index,
             data |-> Tup([i \in 1..Len(index) |->
                              [Close |-> close[i],
                               Return_1d |-> ret1[i], Return_1d_lag1 |-> lag1[i],
                               Return_5d |-> ret5[i], Return_21d |-> ret21[i],
                               MA_20 |-> ma20[i], Price_vs_MA20 |-> pvm[i],
                               Vol_20 |-> vol20[i], Vol_60 |-> vol60[i],
                               Vol_Ratio_20_60 |-> ratio[i],
                               RSI_14 |-> rsi[i], MACD_Hist |-> macd[i],
                               BB_PctB_20_2 |-> pctb[i], BB_Width_20_2 |-> width[i],
                               Target_Return_7d |-> target[i]]],
                          Len(index))])
\* The columns, from the series that several of them share.
Columns(index, close, ret1, ma20, vol20, vol60, up, lo, fill) ==
    Frame(index, close, ret1, Return_1d_lag1(ret1),
          Return_5d(close, fill), Return_21d(close, fill),
          ma20, Price_vs_MA20(close, ma20),
          vol20, vol60, Vol_Ratio_20_60(vol20, vol60),
          RSI_14(close), MACD_Hist(close),
          BB_PctB_20_2(close, up, lo), BB_Width_20_2(up, lo, replace_zero(ma20)),
          Target_Return_7d(close, fill))
Bands(index, close, ret1, ma20, sd20, fill) ==
    Columns(index, close, ret1, ma20, Vol_20(ret1), Vol_60(ret1),
            upper(ma20, sd20), lower(ma20, sd20), fill)
Series(index, close, fill) ==
    Bands(index, close, Return_1d(close, fill), MA_20(close), std20(close), fill)
\* close = _ensure_close(df)
BasePrice(d, base, fill) ==
    IF base.error # "none"
    THEN [error |-> base.error, index |-> d.index, close |-> <<>>, missing |-> <<>>,
          feat |-> EmptyFrame]
    ELSE Series(d.index, base.values, fill)
Features(d, fill) == BasePrice(d, _ensure_close(d), fill)
make_features(t, fill, ties) == Features(normalize(t, ties), fill)

-----------------------------------------------------------------------------
(* Input tables.  A trading date is a day number, a cell is a number       *)
(* [num |-> k] or a text [text |-> t], a column label is a tuple of its    *)
(* levels.  Prices are small powers of two, so that every return, mean and *)
(* variance stays an exact fraction of machine integers.                   *)

MaxExtra == 2
MaxRsiLen == 16

\* 60 + 7 + 1: the least number of rows that leaves a row with both a full
\* long volatility window and a target.
MinFeasible == VOL_LONG + TARGET_HORIZON + 1

ShortLengths == {0, 1, 2, VOL_LONG - 1, VOL_LONG, VOL_LONG + 1, MinFeasible - 1}
LongLengths == MinFeasible..(MinFeasible + MaxExtra)

Shapes == {"flat", "zigzag", "wave", "calm_start", "calm_end"}
Zigzag(i) == IF i % 2 = 0 THEN 2 ELSE 1
Price(shape, i) ==
    CASE shape = "flat" -> 2
      [] shape = "zigzag" -> Zigzag(i)
      [] shape = "wave" -> <<1, 2, 4, 2>>[(i % 4) + 1]
      [] shape = "calm_start" -> IF i <= 45 THEN 2 ELSE Zigzag(i)
      [] shape = "calm_end" -> IF i <= 41 THEN Zigzag(i) ELSE 2

Labelled(n, labels, cell) ==
    [index |-> Tup([i \in 1..n |-> i], n),
     multi |-> FALSE,
     columns |-> labels,
     data |-> Tup([i \in 1..n |-> Tup([j \in 1..Len(labels) |-> cell[i, j]], Len(labels))], n)]

PriceTable(n, shape) ==
    Labelled(n, << <<"Close">> >>, [i \in 1..n, j \in {1} |-> [num |-> Price(shape, i)]])

WithCell(t, i, j, cell) == [t EXCEPT !.data[i][j] = cell]
WithDate(t, i, date) == [t EXCEPT !.index[i] = date]
SwapRows(t, i, k) ==
    LET n == Len(t.index)
    IN take(t, Tup([r \in 1..n |-> IF r = i THEN k ELSE IF r = k THEN i ELSE r], n))

\* One cell of the price column that is not the number the shape puts there.
Defects == {[text |-> "n/a"], [text |-> "4"]}
DefectRows(n) == {1, 30, VOL_LONG + 1, n} \cap (1..n)
Defective ==
    UNION {{WithCell(PriceTable(n, shape), i, 1, cell) : i \in DefectRows(n), cell \in Defects} :
           n \in {2, MinFeasible - 1} \cup LongLengths, shape \in {"zigzag", "wave"}}

\* Tables whose dates are repeated or out of order around row 61: the date
\* of row 61 again in row 62; rows 61 and 62 exchanged; the date of row 62
\* already in the first row, with another price.
Reindex(t, kind) ==
    LET r == VOL_LONG + 1
    IN CASE kind = "repeat" -> WithDate(t, r + 1, r)
         [] kind = "swap" -> SwapRows(t, r, r + 1)
         [] kind = "early_repeat" -> WithCell(WithDate(t, 1, r + 1), 1, 1, [num |-> 8])
Reindexed(shapes) ==
    {Reindex(PriceTable(n, shape), kind) :
        n \in LongLengths, shape \in shapes, kind \in {"repeat", "swap", "early_repeat"}}

Clean == {PriceTable(n, shape) : n \in ShortLengths \cup LongLengths, shape \in Shapes}

\* The order of equal dates matters only where sort_index sorts.
TieOrders(t) == IF is_monotonic_increasing(t.index) THEN {"input"} ELSE {"input", "reversed"}

-----------------------------------------------------------------------------
(* One call of make_features on one table.  The installed pandas decides   *)
(* fill_method (the default of pct_change: "pad" before pandas 3, no       *)
(* filling from pandas 3 on); the sort decides the order of equal dates.   *)

Pending == <<>>

Init ==
    /\ df \in Clean \cup Defective \cup Reindexed({"zigzag", "wave"})
    /\ df2 = df
    /\ fill_method \in {"pad", "none"}
    /\ sort_ties \in TieOrders(df)
    /\ pc = "call"
    /\ ret = Pending
    /\ ret2 = Pending

Call ==
    /\ pc = "call"
    /\ ret' = make_features(df, fill_method, sort_ties)
    /\ pc' = "done"
    /\ UNCHANGED <<df, df2, fill_method, sort_ties, ret2>>

Next == Call

Spec == Init /\ [][Next]_vars

-----------------------------------------------------------------------------
(* What the claims speak of.                                               *)

Range(s) == {s[i] : i \in 1..Len(s)}
Returned == pc = "done" /\ ret.error = "none"
Position(index, date) == CHOOSE p \in 1..Len(index) : index[p] = date
AllColumns == {"Close", TARGET} \cup Range(DEFAULT_FEATURES)
Ascending(index) == \A k \in 1..(Len(index) - 1) : index[k] < index[k + 1]

\* C1: every returned date t has Target_Return_7d = close[t+7]/close[t] - 1,
\* t+7 being the date 7 positions after t in the cleaned table, also when
\* some closes are missing; and none of the final 7 dates is returned.
C1_TargetIsSevenAhead ==
    Returned =>
        \A k \in 1..Len(ret.feat.index) :
            LET p == Position(ret.index, ret.feat.index[k])
            IN /\ p + TARGET_HORIZON <= Len(ret.index)
               /\ ret.feat.data[k].Target_Return_7d =
                      Sub(Div(ret.close[p + TARGET_HORIZON], ret.close[p]), RatInt(1))

\* C2: the returned dates are exactly the dates of the cleaned table at
\* which Close, the 13 features and the target are all present, and no cell
\* of the output is missing.
C2_ExactlyTheCompleteRows ==
    Returned =>
        /\ Len(ret.feat.index) = Cardinality({i \in 1..Len(ret.index) : ret.missing[i] = {}})
        /\ ret.feat.index =
               [k \in 1..Len(ret.feat.index) |->
                   ret.index[SelectRange([i \in 1..Len(ret.index) |-> ret.missing[i] = {}],
                                         1, Len(ret.index))[k]]]
        /\ \A k \in 1..Len(ret.feat.index) :
               /\ DOMAIN ret.feat.data[k] = AllColumns
               /\ \A c \in AllColumns : ~IsNaN(ret.feat.data[k][c])

\* A call that returned rows and dropped rows for each of the three causes:
\* a close that is no number, too short a history, no future.
C2_Witness ==
    /\ Returned
    /\ ret.feat.index # <<>>
    /\ \E i \in 1..Len(ret.index) : "Close" \in ret.missing[i]
    /\ \E i \in 1..Len(ret.index) : "Close" \notin ret.missing[i] /\ "Vol_60" \in ret.missing[i]
    /\ \E i \in 1..Len(ret.index) : ret.missing[i] = {TARGET}

\* C3: whatever the order and the repetitions of the input dates, the
\* returned dates are strictly ascending (so pairwise distinct) and each is
\* a date of the input table.
C3_DatesAscendingFromInput ==
    Returned =>
        /\ Ascending(ret.feat.index)
        /\ Range(ret.feat.index) \subseteq Range(df.index)

\* Several rows returned from a table whose dates were out of order.
C3_Witness ==
    /\ Returned
    /\ ~is_monotonic_increasing(df.index)
    /\ Len(ret.feat.index) >= 2

AllNumeric(close) == \A i \in 1..Len(close) : Valid(close[i])
Flat(close, lo, hi) == \A i \in lo..hi : close[i] = close[lo]
ConstantRatio(close, lo, hi) ==
    \A i \in (lo + 2)..hi :
        Mul(close[i], close[i - 2]) = Mul(close[i - 1], close[i - 1])

C10_TooShortYieldsNothing ==
    (pc = "done" /\ Len(df.index) < MinFeasible) =>
        /\ ret.error = "none"
        /\ ret.feat.index = <<>>
        /\ ret.feat.data = <<>>

\* The longest table that is too short, and the table with no rows.
C10_Witness ==
    /\ pc = "done"
    /\ Len(df.index) \in {0, MinFeasible - 1}
    /\ ret.error = "none"
    /\ ret.feat.index = <<>>

-----------------------------------------------------------------------------
(* Two calls of make_features, on two tables that are related as the       *)
(* comparing claims say: a table and its first occurrences in date order,  *)
(* a table with symbol-qualified labels and the same table without, two    *)
(* tables that differ in one close, two tables that differ in the fields   *)
(* beside the base price.                                                  *)

\* The rows that are the first of their date in input order, by date.
FirstOccurrences(t) ==
    LET n == Len(t.index)
        first == SelectRange([i \in 1..n |-> \A j \in 1..(i - 1) : t.index[j] # t.index[i]], 1, n)
        u == take(t, first)
    IN take(u, argsort(u.index, "input"))

\* A table of several fields: the close and the adjusted close follow a
\* shape each, any other field holds offset + row number.
Fields(n, labels, closeShape, adjShape, offset) ==
    Labelled(n, labels,
             [i \in 1..n, j \in 1..Len(labels) |->
                 CASE labels[j] = <<"Close">> -> [num |-> Price(closeShape, i)]
                   [] labels[j] = <<"Adj Close">> -> [num |-> Price(adjShape, i)]
                   [] OTHER -> [num |-> offset + i]])

Qualified(t, symbol) ==
    [t EXCEPT !.multi = TRUE,
              !.columns = Tup([j \in 1..Len(t.columns) |-> <<t.columns[j][1], symbol>>],
                              Len(t.columns))]

OHLCV == << <<"Open">>, <<"Close">>, <<"Adj Close">>, <<"Volume">> >>
Unadjusted == << <<"Open">>, <<"Close">>, <<"Volume">> >>
Adjusted == << <<"Close">>, <<"Adj Close">> >>

DuplicatePairs == {<<t, FirstOccurrences(t)>> : t \in Reindexed({"wave"})}
LabelPairs ==
    {<<Qualified(t, "AAPL"), t>> :
        t \in {Fields(n, labels, "wave", "zigzag", 0) :
                  n \in {MinFeasible - 1} \cup LongLengths,
                  labels \in {<< <<"Close">> >>, OHLCV}}}
FuturePairs ==
    UNION {{<<PriceTable(n, "wave"), WithCell(PriceTable(n, "wave"), i, 1, cell)>> :
               i \in {30, VOL_LONG + 2, n}, cell \in {[text |-> "n/a"], [num |-> 8]}} :
           n \in LongLengths}
FieldPairs ==
    UNION {{<<Fields(n, Unadjusted, "wave", "wave", 0), Fields(n, Unadjusted, "wave", "wave", 5)>>,
            <<Fields(n, Adjusted, "wave", "zigzag", 0), Fields(n, Adjusted, "flat", "zigzag", 0)>>,
            <<Fields(n, Adjusted, "flat", "wave", 0), Fields(n, Unadjusted, "wave", "flat", 0)>>} :
           n \in LongLengths}

InitPair ==
    /\ \E pair \in DuplicatePairs \cup LabelPairs \cup FuturePairs \cup FieldPairs :
           /\ df = pair[1]
           /\ df2 = pair[2]
    /\ fill_method \in {"pad", "none"}
    /\ sort_ties \in TieOrders(df) \cup TieOrders(df2)
    /\ pc = "call"
    /\ ret = Pending
    /\ ret2 = Pending

CallBoth ==
    /\ pc = "call"
    /\ ret' = make_features(df, fill_method, sort_ties)
    /\ ret2' = make_features(df2, fill_method, sort_ties)
    /\ pc' = "done"
    /\ UNCHANGED <<df, df2, fill_method, sort_ties>>

NextPair == CallBoth

SpecPair == InitPair /\ [][NextPair]_vars

SameOutput == ret.error = ret2.error /\ ret.feat = ret2.feat
HasRepeat(index) == \E i, j \in 1..Len(index) : i < j /\ index[i] = index[j]

\* C6: for a table with a repeated date (with differing closes) and/or rows
\* out of date order, the output is computed from the first row in input
\* order of each date, in ascending date order: it equals the output for
\* the table with the later duplicates removed and the rows sorted.
C6_FirstOccurrenceWins ==
    (/\ pc = "done"
     /\ HasRepeat(df.index) \/ ~is_monotonic_increasing(df.index)
     /\ df2 = FirstOccurrences(df))
    => /\ SameOutput
       /\ Ascending(ret.feat.index)

\* C7: a table with two-level (field, symbol) labels and the table of the
\* same dates and values with the single-level field labels give identical
\* outputs.
C7_QualifiedLabelsSameOutput ==
    (/\ pc = "done"
     /\ df.multi /\ ~df2.multi
     /\ df2.index = df.index /\ df2.data = df.data
     /\ df2.columns = [j \in 1..Len(df.columns) |-> <<df.columns[j][1]>>])
    => SameOutput

\* A qualified table with rows returned, and its output is not an error.
C7_Witness ==
    /\ pc = "done"
    /\ df.multi /\ ~df2.multi
    /\ df2.data = df.data
    /\ Len(df.columns) > 1
    /\ ret.error = "none"
    /\ ret.feat.index # <<>>

Predictors == {"Close"} \cup Range(DEFAULT_FEATURES)
RowAt(r, date) == r.feat.data[Position(r.feat.index, date)]
\* The cleaned tables of the two calls agree on every date up to date.
AgreeUpTo(date) ==
    LET p == Position(ret.index, date)
    IN /\ p = Position(ret2.index, date)
       /\ SubSeq(ret.index, 1, p) = SubSeq(ret2.index, 1, p)
       /\ SubSeq(ret.close, 1, p) = SubSeq(ret2.close, 1, p)
RetainedInBoth == Range(ret.feat.index) \cap Range(ret2.feat.index)

\* C8: if the cleaned base prices of two tables agree on every date up to
\* and including t, and t is returned for both, then Close and the 13
\* features at t are the same in both outputs.
C8_PredictorsAreCausal ==
    (pc = "done" /\ ret.error = "none" /\ ret2.error = "none") =>
        \A date \in RetainedInBoth :
            AgreeUpTo(date) =>
                \A c \in Predictors : RowAt(ret, date)[c] = RowAt(ret2, date)[c]

\* Two tables that part after a returned date: the predictors there are
\* compared while the targets differ.
C8_Witness ==
    /\ pc = "done" /\ ret.error = "none" /\ ret2.error = "none"
    /\ \E date \in RetainedInBoth :
           /\ AgreeUpTo(date)
           /\ ret.close # ret2.close
           /\ RowAt(ret, date)[TARGET] # RowAt(ret2, date)[TARGET]

BaseField(t) == IF HasColumn(t, "Adj Close") THEN "Adj Close" ELSE "Close"
SameBase ==
    /\ ~df.multi /\ ~df2.multi
    /\ df.index = df2.index
    /\ Column(df, BaseField(df)) = Column(df2, BaseField(df2))

\* C9: two tables with the same dates and the same base prices (the
\* adjusted close where the table has one, else the close) give identical
\* outputs, whatever their other fields hold.
C9_OnlyTheBasePriceMatters ==
    (pc = "done" /\ SameBase) => SameOutput

\* Two tables with an adjusted close that differ in their Close field.
C9_Witness ==
    /\ pc = "done" /\ SameBase
    /\ HasColumn(df, "Adj Close") /\ HasColumn(df2, "Adj Close")
    /\ Column(df, "Close") # Column(df2, "Close")
    /\ ret.feat.index # <<>>

-----------------------------------------------------------------------------
(* _rsi on its own, on the base prices of short tables: rising prices of   *)
(* several starts and steps, and the shapes above for contrast.  _rsi uses *)
(* neither pct_change nor the sort.                                        *)

Climb(kind, start, i) ==
    CASE kind = "by_one" -> start + (i - 1)
      [] kind = "by_two" -> start + 2 * (i - 1)
      [] kind = "faster" -> start + ((i * (i - 1)) \div 2)
ClimbTable(n, kind, start) ==
    Labelled(n, << <<"Close">> >>, [i \in 1..n, j \in {1} |-> [num |-> Climb(kind, start, i)]])
RsiTables ==
    {ClimbTable(n, kind, start) :
        n \in 2..MaxRsiLen, kind \in {"by_one", "by_two", "faster"}, start \in {1, 100}}
    \cup {PriceTable(n, shape) : n \in 2..MaxRsiLen, shape \in {"flat", "zigzag", "wave"}}

InitRsi ==
    /\ df \in RsiTables
    /\ df2 = df
    /\ fill_method = "pad"
    /\ sort_ties = "input"
    /\ pc = "call"
    /\ ret = Pending
    /\ ret2 = Pending

CallRsi ==
    /\ pc = "call"
    /\ ret' = [close |-> _ensure_close(df).values, rsi |-> RSI_14(_ensure_close(df).values)]
    /\ pc' = "done"
    /\ UNCHANGED <<df, df2, fill_method, sort_ties, ret2>>

NextRsi == CallRsi

SpecRsi == InitRsi /\ [][NextRsi]_vars

StrictlyIncreasing(close) ==
    \A i \in 1..(Len(close) - 1) : Positive(Sub(close[i + 1], close[i]))
\* x > k, for x a fraction of multi-limb integers and k a small natural.
Above(x, k) ==
    LET excess == Canon(BigSub(x.num.mag, Scale(x.den, k)))
    IN ~x.num.neg /\ ~excess.neg /\ excess.mag # <<>>

\* C5: on a strictly increasing close series, RSI_14 is strictly above the
\* neutral 50 at every date after the first (on its way to 100).
C5_RisingPricesLiftRsi ==
    (pc = "done" /\ StrictlyIncreasing(ret.close)) =>
        \A i \in 2..Len(ret.rsi) : Above(ret.rsi[i], RSI_NEUTRAL)

=============================================================================
